---- MODULE Spec2Model ----
(***************************************************************************)
(* IMU polling tool (src/code.cpp): one process that opens the I2C bus,    *)
(* identifies and configures an LSM6DS33 (gyro+accel) and a LIS3MDL        *)
(* (magnetometer), then reads nine little-endian 16-bit words per          *)
(* iteration forever.  Every system call on the bus (open, ioctl, write,   *)
(* read) is one step.  The two devices and the kernel's i2c-dev handle are *)
(* the environment: register files, a register pointer per device, the     *)
(* slave address bound to the handle, and a sensor that replaces its       *)
(* output registers with the next sample of a fixed stream.                *)
(***************************************************************************)
EXTENDS Integers, Sequences, FiniteSets, TLC

(* ------------------------------------------------------------------ *)
(* Program constants (main, src/code.cpp:62-80), in decimal.           *)
(* ------------------------------------------------------------------ *)
\* 0x6B
ADDR_LSM6 == 107
\* 0x1E
ADDR_LIS3 == 30
\* 0x0F
REG_WHO_AM_I_LSM6 == 15
\* 0x10
REG_CTRL1_XL == 16
\* 0x11
REG_CTRL2_G == 17
\* 0x22
REG_OUTX_L_G == 34
\* 0x28
REG_OUTX_L_XL == 40
\* 0x0F
REG_WHO_AM_I_LIS3 == 15
\* 0x20
REG_CTRL_REG1 == 32
\* 0x21
REG_CTRL_REG2 == 33
\* 0x22
REG_CTRL_REG3 == 34
\* 0x28
REG_OUT_X_L == 40

(* ------------------------------------------------------------------ *)
(* Bounds of the model.                                                 *)
(* ------------------------------------------------------------------ *)
\* The sensors replace their output registers at most this many times.
MaxSample == 2

\* Bytes a WHO_AM_I register may hold: 0x69 and 0x3D, the datasheet values of the
\* two devices, so that each device answers with its own value or the other's.
WhoVals == {105, 61}

\* The samples the sensors produce, in order (0x1234, 0xFFFF, 0x8000, 0x00FF, 0x7FFE).
SampleStream == <<4660, 65535, 32768, 255, 32766>>

Byte == 0..255
Devs == {ADDR_LSM6, ADDR_LIS3}
\* The registers the model keeps for each device: 0x0F..0x11 and 0x20..0x2D.
RegSet == (15..17) \cup (32..45)

VARIABLES
    pc,       \* statement of main in progress, or "exited"
    idx,      \* which configuration write (1..5) or sample word (1..9) is in progress
    half,     \* inside read16_le: 0 while reading the low byte, 1 the high byte
    op,       \* system call of read8/write8 to issue next: "select", "write", "read"
    fd,       \* the bus handle: -1 until open succeeds
    who,      \* <<who_lsm6, who_lis3>>
    lo,       \* read16_le's low byte
    frame,    \* the words gx, gy, gz, ax, ay, az, mx, my, mz read so far in this iteration
    status,   \* exit status of the process, -1 while it runs
    out,      \* what the latest statement of main wrote to stdout
    slave,    \* the address ioctl(I2C_SLAVE) bound to the handle
    ptr,      \* each device's register pointer
    regs,     \* each device's registers
    gen,      \* how many times each sensor has replaced its output registers
    fault,    \* the kind of failure the bus has answered with, "none" so far
    cfgLog,   \* the system calls issued on the bus before the sample loop
    iterLog   \* the system calls issued on the bus in the current iteration of the loop

vars == <<pc, idx, half, op, fd, who, lo, frame, status, out,
          slave, ptr, regs, gen, fault, cfgLog, iterLog>>

NoOut == [kind |-> "none", vals |-> <<>>]

(* ------------------------------------------------------------------ *)
(* The fixed sequences of main.                                         *)
(* ------------------------------------------------------------------ *)
\* Variant of ConfigWrites: the gyroscope is configured before the accelerometer.
ConfigWritesGyroFirst ==
    << [addr |-> ADDR_LSM6, reg |-> REG_CTRL2_G,   val |-> 36],
       [addr |-> ADDR_LSM6, reg |-> REG_CTRL1_XL,  val |-> 32],
       [addr |-> ADDR_LIS3, reg |-> REG_CTRL_REG1, val |-> 108],
       [addr |-> ADDR_LIS3, reg |-> REG_CTRL_REG2, val |-> 0],
       [addr |-> ADDR_LIS3, reg |-> REG_CTRL_REG3, val |-> 0] >>

\* write8 calls of src/code.cpp:99-116, in program order.
ConfigWrites ==
    << [addr |-> ADDR_LSM6, reg |-> REG_CTRL1_XL,  val |-> 32],
       [addr |-> ADDR_LSM6, reg |-> REG_CTRL2_G,   val |-> 36],
       [addr |-> ADDR_LIS3, reg |-> REG_CTRL_REG1, val |-> 108],
       [addr |-> ADDR_LIS3, reg |-> REG_CTRL_REG2, val |-> 0],
       [addr |-> ADDR_LIS3, reg |-> REG_CTRL_REG3, val |-> 0] >>

\* read16_le calls of src/code.cpp:127-139, in program order; uint8_t(reg + k).
SampleReads ==
    << [addr |-> ADDR_LSM6, reg |-> REG_OUTX_L_G],
       [addr |-> ADDR_LSM6, reg |-> (REG_OUTX_L_G + 2) % 256],
       [addr |-> ADDR_LSM6, reg |-> (REG_OUTX_L_G + 4) % 256],
       [addr |-> ADDR_LSM6, reg |-> REG_OUTX_L_XL],
       [addr |-> ADDR_LSM6, reg |-> (REG_OUTX_L_XL + 2) % 256],
       [addr |-> ADDR_LSM6, reg |-> (REG_OUTX_L_XL + 4) % 256],
       [addr |-> ADDR_LIS3, reg |-> REG_OUT_X_L],
       [addr |-> ADDR_LIS3, reg |-> (REG_OUT_X_L + 2) % 256],
       [addr |-> ADDR_LIS3, reg |-> (REG_OUT_X_L + 4) % 256] >>

(* ------------------------------------------------------------------ *)
(* The devices.                                                         *)
(* ------------------------------------------------------------------ *)
\* The output registers a sensor refreshes: OUTX_L_G..OUTZ_H_XL, OUT_X_L..OUT_Z_H.
OutRegs(d) == IF d = ADDR_LSM6 THEN 34..45 ELSE 40..45

\* The 16-bit sample number g of the word whose low byte is at register r - (r - first) % 2.
SampleWord(d, r, g) ==
    LET first == IF d = ADDR_LSM6 THEN 34 ELSE 40
        w     == (r - first) \div 2
    IN  (SampleStream[(g % Len(SampleStream)) + 1] + 257 * w) % 65536

SampleByte(d, r, g) ==
    LET first == IF d = ADDR_LSM6 THEN 34 ELSE 40
    IN  IF (r - first) % 2 = 0 THEN SampleWord(d, r, g) % 256
                               ELSE SampleWord(d, r, g) \div 256

\* A device's registers holding sample g, the given WHO_AM_I byte and control bytes.
RegFile(d, whoami, ctrl, g) ==
    [r \in RegSet |->
        IF r \in OutRegs(d) THEN SampleByte(d, r, g)
        ELSE IF r = 15 THEN whoami
        ELSE IF r \in DOMAIN ctrl THEN ctrl[r]
        ELSE 0]

NoCtrl == [r \in {} |-> 0]

\* What a device keeps of a write of which it received the first n bytes: the
\* first byte sets the register pointer, the second is stored at that register.
DevicePtr(p, data, n) ==
    IF n >= 1 THEN [p EXCEPT ![slave] = data[1]] ELSE p

DeviceRegs(rg, data, n) ==
    IF n >= 2 /\ data[1] \in RegSet THEN [rg EXCEPT ![slave][data[1]] = data[2]] ELSE rg

\* The byte the selected device answers a one-byte read with.
DeviceByte ==
    IF slave \in Devs /\ ptr[slave] \in RegSet THEN regs[slave][ptr[slave]] ELSE 0

(* ------------------------------------------------------------------ *)
(* Pure helpers of the program.                                         *)
(* ------------------------------------------------------------------ *)
\* a | b on unsigned values of n bits.
RECURSIVE BitOr(_, _, _)
BitOr(a, b, n) ==
    IF n = 0 THEN 0
    ELSE (IF a % 2 = 1 \/ b % 2 = 1 THEN 1 ELSE 0) + 2 * BitOr(a \div 2, b \div 2, n - 1)

\* int16_t(u) for u in 0..65535.
ToInt16(u) == IF u % 65536 >= 32768 THEN (u % 65536) - 65536 ELSE u % 65536

\* Variant of Combine: the cast to int16_t is missing.
CombineUnsigned(l, h) == BitOr(l, h * 256, 16)

\* read16_le's return expression: int16_t(uint16_t(lo) | (uint16_t(hi) << 8)).
Combine(l, h) == ToInt16(BitOr(l, h * 256, 16))

HexDigits == <<"0", "1", "2", "3", "4", "5", "6", "7", "8", "9", "a", "b", "c", "d", "e", "f">>

\* std::hex << int(b): the digits of b in base 16, lower case, no leading zero.
RECURSIVE Hex(_)
Hex(b) == IF b < 16 THEN <<HexDigits[b + 1]>> ELSE Append(Hex(b \div 16), HexDigits[(b % 16) + 1])

\* Variants of the failure tests: open compared with 0, and write and read
\* tested for an error return only, so that a short transfer passes.
OpenFailedZero(f) == f = 0
WriteFailedOnError(ret, len) == ret < 0
ReadFailedOnError(ret) == ret < 0

\* The conditions under which the primitives call std::exit(1).  The actions
\* record in fault what the bus answered, whatever these tests make of it.
OpenFailed(f) == f < 0
SelectFailed(ret) == ret < 0
WriteFailed(ret, len) == ret # len
ReadFailed(ret) == ret # 1

(* ------------------------------------------------------------------ *)
(* The call of read8/write8 in progress.                                *)
(* ------------------------------------------------------------------ *)
InRead8 == pc \in {"who_lsm6", "who_lis3", "sample"}
InWrite8 == pc = "config"

CallAddr ==
    CASE pc = "who_lsm6" -> ADDR_LSM6
      [] pc = "who_lis3" -> ADDR_LIS3
      [] pc = "config"   -> ConfigWrites[idx].addr
      [] pc = "sample"   -> SampleReads[idx].addr

CallReg ==
    CASE pc = "who_lsm6" -> REG_WHO_AM_I_LSM6
      [] pc = "who_lis3" -> REG_WHO_AM_I_LIS3
      [] pc = "config"   -> ConfigWrites[idx].reg
      [] pc = "sample"   -> (SampleReads[idx].reg + half) % 256

Entry(o, a, d, r, g) == [op |-> o, addr |-> a, data |-> d, ret |-> r, gen |-> g]

\* A system call on the bus handle: recorded in the log of the phase it is issued in.
Issue(e) ==
    IF pc = "sample"
    THEN iterLog' = Append(iterLog, e) /\ cfgLog' = cfgLog
    ELSE cfgLog' = Append(cfgLog, e) /\ iterLog' = iterLog

\* std::exit(1): the process and its locals are gone.
Exit(kind) ==
    /\ pc' = "exited"
    /\ idx' = 0
    /\ half' = 0
    /\ op' = "none"
    /\ who' = <<0, 0>>
    /\ lo' = 0
    /\ frame' = <<>>
    /\ status' = 1
    /\ out' = NoOut
    /\ fault' = kind

Init ==
    /\ pc = "open"
    /\ idx = 0
    /\ half = 0
    /\ op = "none"
    /\ fd = -1
    /\ who = <<0, 0>>
    /\ lo = 0
    /\ frame = <<>>
    /\ status = -1
    /\ out = NoOut
    /\ slave = 0
    /\ ptr = [d \in Devs |-> 0]
    /\ \E w \in [Devs -> WhoVals] : regs = [d \in Devs |-> RegFile(d, w[d], NoCtrl, 0)]
    /\ gen = [d \in Devs |-> 0]
    /\ fault = "none"
    /\ cfgLog = <<>>
    /\ iterLog = <<>>

(* ------------------------------------------------------------------ *)
(* The program, one system call or one statement of main per step.      *)
(* ------------------------------------------------------------------ *)
\* i2c_open("/dev/i2c-1"): the handle (3) or -1.
i2c_open ==
    /\ pc = "open"
    /\ \E f \in {-1, 3} :
        IF OpenFailed(f)
        THEN /\ Exit(IF f < 0 THEN "open" ELSE "none")
             /\ UNCHANGED <<fd, slave, ptr, regs, gen, cfgLog, iterLog>>
        ELSE /\ fd' = f
             /\ fault' = IF f < 0 THEN "open" ELSE fault
             /\ pc' = "who_lsm6"
             /\ op' = "select"
             /\ out' = NoOut
             /\ UNCHANGED <<idx, half, who, lo, frame, status, slave, ptr, regs, gen,
                            cfgLog, iterLog>>

\* Variant of i2c_set_slave: the selected address is cached, and the ioctl is
\* skipped when the handle is already bound to it.
i2c_set_slave_cached ==
    /\ op = "select"
    /\ IF slave = CallAddr
       THEN /\ op' = "write"
            /\ out' = NoOut
            /\ UNCHANGED <<pc, idx, half, fd, who, lo, frame, status, slave, ptr, regs, gen,
                           fault, cfgLog, iterLog>>
       ELSE \E ret \in {-1, 0} :
            /\ Issue(Entry("ioctl", CallAddr, <<>>, ret, 0))
            /\ slave' = IF ret = 0 THEN CallAddr ELSE slave
            /\ IF SelectFailed(ret)
               THEN /\ Exit("select")
                    /\ UNCHANGED <<fd, ptr, regs, gen>>
               ELSE /\ op' = "write"
                    /\ out' = NoOut
                    /\ UNCHANGED <<pc, idx, half, fd, who, lo, frame, status, ptr, regs, gen,
                                   fault>>

\* i2c_set_slave(fd, addr), the first statement of read8 and of write8.
i2c_set_slave ==
    /\ op = "select"
    /\ \E ret \in {-1, 0} :
        /\ Issue(Entry("ioctl", CallAddr, <<>>, ret, 0))
        /\ slave' = IF ret = 0 THEN CallAddr ELSE slave
        /\ IF SelectFailed(ret)
           THEN /\ Exit(IF ret < 0 THEN "select" ELSE "none")
                /\ UNCHANGED <<fd, ptr, regs, gen>>
           ELSE /\ op' = "write"
                /\ out' = NoOut
                /\ fault' = IF ret < 0 THEN "select" ELSE fault
                /\ UNCHANGED <<pc, idx, half, fd, who, lo, frame, status, ptr, regs, gen>>

\* Variant of Return8: read16_le takes the high byte of the sample the sensor held
\* when the low byte was read (both bytes fetched in one burst).
Return8Latched(v) ==
    CASE pc = "who_lsm6" ->
            /\ who' = <<v, who[2]>>
            /\ pc' = "who_lis3"
            /\ op' = "select"
            /\ UNCHANGED <<idx, half, lo, frame>>
      [] pc = "who_lis3" ->
            /\ who' = <<who[1], v>>
            /\ pc' = "print_who"
            /\ op' = "none"
            /\ UNCHANGED <<idx, half, lo, frame>>
      [] pc = "sample" /\ half = 0 ->
            /\ lo' = v
            /\ half' = 1
            /\ op' = "select"
            /\ UNCHANGED <<pc, idx, who, frame>>
      [] pc = "sample" /\ half = 1 ->
            LET WasRead(e) == e.op = "read"
                rd == SelectSeq(iterLog, WasRead)
                hb == SampleByte(CallAddr, CallReg, rd[Len(rd)].gen)
            IN  /\ frame' = Append(frame, Combine(lo, hb))
                /\ lo' = 0
                /\ half' = 0
                /\ IF idx < Len(SampleReads)
                   THEN idx' = idx + 1 /\ op' = "select" /\ pc' = pc
                   ELSE idx' = 0 /\ op' = "none" /\ pc' = "print"
                /\ who' = who

\* What read8's caller does with the byte: main's two WHO_AM_I reads, read16_le's
\* low and high byte.
Return8(v) ==
    CASE pc = "who_lsm6" ->
            /\ who' = <<v, who[2]>>
            /\ pc' = "who_lis3"
            /\ op' = "select"
            /\ UNCHANGED <<idx, half, lo, frame>>
      [] pc = "who_lis3" ->
            /\ who' = <<who[1], v>>
            /\ pc' = "print_who"
            /\ op' = "none"
            /\ UNCHANGED <<idx, half, lo, frame>>
      [] pc = "sample" /\ half = 0 ->
            /\ lo' = v
            /\ half' = 1
            /\ op' = "select"
            /\ UNCHANGED <<pc, idx, who, frame>>
      [] pc = "sample" /\ half = 1 ->
            /\ frame' = Append(frame, Combine(lo, v))
            /\ lo' = 0
            /\ half' = 0
            /\ IF idx < Len(SampleReads)
               THEN idx' = idx + 1 /\ op' = "select" /\ pc' = pc
               ELSE idx' = 0 /\ op' = "none" /\ pc' = "print"
            /\ who' = who

\* read8: write(fd, &reg, 1).
read8_write ==
    /\ InRead8
    /\ op = "write"
    /\ \E ret \in -1..1 :
        /\ Issue(Entry("write", slave, <<CallReg>>, ret, 0))
        /\ ptr' = DevicePtr(ptr, <<CallReg>>, ret)
        /\ IF WriteFailed(ret, 1)
           THEN /\ Exit(IF ret # 1 THEN "short_write" ELSE "none")
                /\ UNCHANGED <<fd, slave, regs, gen>>
           ELSE /\ op' = "read"
                /\ out' = NoOut
                /\ fault' = IF ret # 1 THEN "short_write" ELSE fault
                /\ UNCHANGED <<pc, idx, half, fd, who, lo, frame, status, slave, regs, gen>>

\* read8: uint8_t v = 0; read(fd, &v, 1); return v.
read8_read ==
    /\ InRead8
    /\ op = "read"
    /\ \E ret \in -1..1 :
        LET v == IF ret = 1 THEN DeviceByte ELSE 0
        IN  /\ Issue(Entry("read", slave, IF ret = 1 THEN <<v>> ELSE <<>>, ret,
                           IF slave \in Devs THEN gen[slave] ELSE 0))
            /\ IF ReadFailed(ret)
               THEN /\ Exit(IF ret # 1 THEN "short_read" ELSE "none")
                    /\ UNCHANGED <<fd, slave, ptr, regs, gen>>
               ELSE /\ Return8(v)
                    /\ out' = NoOut
                    /\ fault' = IF ret # 1 THEN "short_read" ELSE fault
                    /\ UNCHANGED <<fd, status, slave, ptr, regs, gen>>

\* write8: uint8_t buf[2] = {reg, val}; write(fd, buf, 2).
write8_write ==
    /\ InWrite8
    /\ op = "write"
    /\ \E ret \in -1..2 :
        LET buf == <<CallReg, ConfigWrites[idx].val>>
        IN  /\ Issue(Entry("write", slave, buf, ret, 0))
            /\ ptr' = DevicePtr(ptr, buf, ret)
            /\ regs' = DeviceRegs(regs, buf, ret)
            /\ IF WriteFailed(ret, 2)
               THEN /\ Exit(IF ret # 2 THEN "short_write" ELSE "none")
                    /\ UNCHANGED <<fd, slave, gen>>
               ELSE /\ IF idx < Len(ConfigWrites)
                       THEN idx' = idx + 1 /\ op' = "select" /\ pc' = pc
                       ELSE idx' = 0 /\ op' = "none" /\ pc' = "banner"
                    /\ out' = NoOut
                    /\ fault' = IF ret # 2 THEN "short_write" ELSE fault
                    /\ UNCHANGED <<half, fd, who, lo, frame, status, slave, gen>>

\* Variant of print_who: the identification bytes are compared with the datasheet
\* values and the process exits when they differ.
print_who_checked ==
    /\ pc = "print_who"
    /\ IF who = <<105, 61>>
       THEN /\ out' = [kind |-> "who", vals |-> <<Hex(who[1]), Hex(who[2])>>]
            /\ pc' = "config"
            /\ idx' = 1
            /\ op' = "select"
            /\ UNCHANGED <<half, fd, who, lo, frame, status, slave, ptr, regs, gen, fault,
                           cfgLog, iterLog>>
       ELSE /\ Exit(fault)
            /\ UNCHANGED <<fd, slave, ptr, regs, gen, cfgLog, iterLog>>

\* The two identification lines, each byte through std::hex.
print_who ==
    /\ pc = "print_who"
    /\ out' = [kind |-> "who", vals |-> <<Hex(who[1]), Hex(who[2])>>]
    /\ pc' = "config"
    /\ idx' = 1
    /\ op' = "select"
    /\ UNCHANGED <<half, fd, who, lo, frame, status, slave, ptr, regs, gen, fault,
                   cfgLog, iterLog>>

\* "Configured sensors...", the column header; then the loop is entered.
print_banner ==
    /\ pc = "banner"
    /\ out' = [kind |-> "banner", vals |-> <<>>]
    /\ pc' = "sample"
    /\ idx' = 1
    /\ half' = 0
    /\ op' = "select"
    /\ UNCHANGED <<fd, who, lo, frame, status, slave, ptr, regs, gen, fault,
                   cfgLog, iterLog>>

\* The data line: the nine words, "\r", std::flush.
print_line ==
    /\ pc = "print"
    /\ out' = [kind |-> "line", vals |-> frame]
    /\ pc' = "usleep"
    /\ UNCHANGED <<idx, half, op, fd, who, lo, frame, status, slave, ptr, regs, gen,
                   fault, cfgLog, iterLog>>

\* Variant of usleep: the loop ends after the line; close(fd); return 0.
usleep_break ==
    /\ pc = "usleep"
    /\ pc' = "exited"
    /\ idx' = 0
    /\ half' = 0
    /\ op' = "none"
    /\ who' = <<0, 0>>
    /\ lo' = 0
    /\ frame' = <<>>
    /\ status' = 0
    /\ out' = NoOut
    /\ fd' = -1
    /\ UNCHANGED <<slave, ptr, regs, gen, fault, cfgLog, iterLog>>

\* Variant of usleep: the loop body starts at the configuration writes.
usleep_reconfigure ==
    /\ pc = "usleep"
    /\ pc' = "config"
    /\ idx' = 1
    /\ half' = 0
    /\ op' = "select"
    /\ frame' = <<>>
    /\ out' = NoOut
    /\ iterLog' = <<>>
    /\ UNCHANGED <<fd, who, lo, status, slave, ptr, regs, gen, fault, cfgLog>>

\* usleep(50'000), the end of the loop body, and while (true) again.
usleep ==
    /\ pc = "usleep"
    /\ pc' = "sample"
    /\ idx' = 1
    /\ half' = 0
    /\ op' = "select"
    /\ frame' = <<>>
    /\ out' = NoOut
    /\ iterLog' = <<>>
    /\ UNCHANGED <<fd, who, lo, status, slave, ptr, regs, gen, fault, cfgLog>>

(* ------------------------------------------------------------------ *)
(* The environment.                                                     *)
(* ------------------------------------------------------------------ *)
\* Sensor d finishes a measurement and replaces all its output registers at once.
SensorUpdate(d) ==
    /\ pc # "exited"
    /\ gen[ADDR_LSM6] + gen[ADDR_LIS3] < MaxSample
    /\ gen' = [gen EXCEPT ![d] = @ + 1]
    /\ regs' = [regs EXCEPT ![d] =
                  [r \in RegSet |-> IF r \in OutRegs(d) THEN SampleByte(d, r, gen[d] + 1)
                                    ELSE regs[d][r]]]
    /\ UNCHANGED <<pc, idx, half, op, fd, who, lo, frame, status, out, slave, ptr,
                   fault, cfgLog, iterLog>>

Program ==
    \/ i2c_open
    \/ i2c_set_slave
    \/ read8_write
    \/ read8_read
    \/ write8_write
    \/ print_who
    \/ print_banner
    \/ print_line
    \/ usleep

Next ==
    \/ Program
    \/ \E d \in Devs : SensorUpdate(d)

Spec == Init /\ [][Next]_vars

\* The process returns from every system call it makes (blocking I/O, one thread).
FairSpec == Spec /\ WF_vars(Program)

(* ------------------------------------------------------------------ *)
(* read16_le on arbitrary register contents: the program at the top of   *)
(* its first iteration, the first word's register pair holding any two   *)
(* bytes, and the three system calls of each of its two read8 calls.     *)
(* ------------------------------------------------------------------ *)
\* The log of a configuration phase in which nothing failed.
ConfigLogOf(w1, w2) ==
    << Entry("ioctl", ADDR_LSM6, <<>>, 0, 0),
       Entry("write", ADDR_LSM6, <<REG_WHO_AM_I_LSM6>>, 1, 0),
       Entry("read",  ADDR_LSM6, <<w1>>, 1, 0),
       Entry("ioctl", ADDR_LIS3, <<>>, 0, 0),
       Entry("write", ADDR_LIS3, <<REG_WHO_AM_I_LIS3>>, 1, 0),
       Entry("read",  ADDR_LIS3, <<w2>>, 1, 0),
       Entry("ioctl", ADDR_LSM6, <<>>, 0, 0),
       Entry("write", ADDR_LSM6, <<REG_CTRL1_XL, 32>>, 2, 0),
       Entry("ioctl", ADDR_LSM6, <<>>, 0, 0),
       Entry("write", ADDR_LSM6, <<REG_CTRL2_G, 36>>, 2, 0),
       Entry("ioctl", ADDR_LIS3, <<>>, 0, 0),
       Entry("write", ADDR_LIS3, <<REG_CTRL_REG1, 108>>, 2, 0),
       Entry("ioctl", ADDR_LIS3, <<>>, 0, 0),
       Entry("write", ADDR_LIS3, <<REG_CTRL_REG2, 0>>, 2, 0),
       Entry("ioctl", ADDR_LIS3, <<>>, 0, 0),
       Entry("write", ADDR_LIS3, <<REG_CTRL_REG3, 0>>, 2, 0) >>

\* The devices after that configuration.
ConfiguredRegs(w1, w2) ==
    [d \in Devs |->
        IF d = ADDR_LSM6
        THEN RegFile(d, w1, (REG_CTRL1_XL :> 32) @@ (REG_CTRL2_G :> 36), 0)
        ELSE RegFile(d, w2, (REG_CTRL_REG1 :> 108) @@ (REG_CTRL_REG2 :> 0) @@ (REG_CTRL_REG3 :> 0), 0)]

\* The state in which the loop is entered, given the registers.
LoopEntry(rg) ==
    /\ pc = "sample"
    /\ idx = 1
    /\ half = 0
    /\ op = "select"
    /\ fd = 3
    /\ who = <<105, 61>>
    /\ lo = 0
    /\ frame = <<>>
    /\ status = -1
    /\ out = [kind |-> "banner", vals |-> <<>>]
    /\ slave = ADDR_LIS3
    /\ ptr = (ADDR_LSM6 :> REG_CTRL2_G) @@ (ADDR_LIS3 :> REG_CTRL_REG3)
    /\ regs = rg
    /\ gen = [d \in Devs |-> 0]
    /\ fault = "none"
    /\ cfgLog = ConfigLogOf(105, 61)
    /\ iterLog = <<>>

WordInit ==
    \E l \in Byte, h \in Byte :
        LoopEntry([ConfiguredRegs(105, 61) EXCEPT
                      ![ADDR_LSM6][REG_OUTX_L_G] = l,
                      ![ADDR_LSM6][REG_OUTX_L_G + 1] = h])

\* read16_le(fd, ADDR_LSM6, REG_OUTX_L_G) with every system call succeeding.
WordNext ==
    \/ pc = "sample" /\ idx = 1 /\ i2c_set_slave /\ fault' = "none"
    \/ pc = "sample" /\ idx = 1 /\ read8_write /\ fault' = "none"
    \/ pc = "sample" /\ idx = 1 /\ read8_read /\ fault' = "none"

SpecWord == WordInit /\ [][WordNext]_vars

(* ------------------------------------------------------------------ *)
(* Vocabulary of the properties.                                        *)
(* ------------------------------------------------------------------ *)
IsPrefix(s, t) == Len(s) <= Len(t) /\ s = SubSeq(t, 1, Len(s))

RECURSIVE Flatten(_)
Flatten(ss) == IF ss = <<>> THEN <<>> ELSE Head(ss) \o Flatten(Tail(ss))

\* A system call without what the device answered: its kind, address, payload, result.
Shape(e) ==
    [op |-> e.op, addr |-> e.addr, data |-> IF e.op = "read" THEN <<>> ELSE e.data,
     ret |-> e.ret]

ShapeSeq(log) == [i \in 1..Len(log) |-> Shape(log[i])]

Sys(o, a, d, r) == [op |-> o, addr |-> a, data |-> d, ret |-> r]

\* A successful register read and a successful register write, as seen on the bus.
ReadTxn(a, r) == << Sys("ioctl", a, <<>>, 0), Sys("write", a, <<r>>, 1), Sys("read", a, <<>>, 1) >>
WriteTxn(a, r, v) == << Sys("ioctl", a, <<>>, 0), Sys("write", a, <<r, v>>, 2) >>

IsRead(e) == e.op = "read"
IsRegWrite(e) == e.op = "write" /\ Len(e.data) = 2
Failed(e) ==
    \/ e.op = "ioctl" /\ e.ret < 0
    \/ e.op = "write" /\ e.ret # Len(e.data)
    \/ e.op = "read" /\ e.ret # 1

Streaming == pc \in {"sample", "print", "usleep"}

\* How many system calls of the call in progress have been issued.
OpCount == CASE op = "select" -> 0 [] op = "write" -> 1 [] op = "read" -> 2 [] OTHER -> 0

\* How many system calls a run without failures has issued before the loop.
ConfigCount ==
    CASE pc = "open"      -> 0
      [] pc = "who_lsm6"  -> OpCount
      [] pc = "who_lis3"  -> 3 + OpCount
      [] pc = "print_who" -> 6
      [] pc = "config"    -> 6 + 2 * (idx - 1) + OpCount
      [] OTHER            -> 16

SignedLE(l, h) == IF l + 256 * h < 32768 THEN l + 256 * h ELSE l + 256 * h - 65536

C1_Expected ==
    Flatten(<< ReadTxn(107, 15), ReadTxn(30, 15),
               WriteTxn(107, 16, 32), WriteTxn(107, 17, 36),
               WriteTxn(30, 32, 108), WriteTxn(30, 33, 0), WriteTxn(30, 34, 0) >>)

(* ------------------------------------------------------------------ *)
(* C1: while no bus operation has failed, the system calls issued       *)
(* before the loop are exactly: read 0x0F on 0x6B, read 0x0F on 0x1E,   *)
(* 0x6B 0x10 := 0x20, 0x6B 0x11 := 0x24, 0x1E 0x20 := 0x6C,             *)
(* 0x1E 0x21 := 0x00, 0x1E 0x22 := 0x00, in this order, each with its   *)
(* device-select, and nothing else; at every point of the               *)
(* configuration the log is the prefix of that sequence the program's   *)
(* position stands for.                                                 *)
(* ------------------------------------------------------------------ *)
C1_ConfigOrder ==
    fault = "none" =>
        /\ ShapeSeq(cfgLog) = SubSeq(C1_Expected, 1, ConfigCount)
        /\ (Streaming \/ pc = "banner" => ShapeSeq(cfgLog) = C1_Expected)

C1_Witness == pc = "banner" /\ fault = "none" /\ Len(cfgLog) = 16

(* ------------------------------------------------------------------ *)
(* C2: for every pair of bytes (lo, hi) in registers N and N+1,         *)
(* read16_le reads N first and N+1 second and returns lo + 256*hi as a  *)
(* 16-bit two's-complement value; (0x34, 0x12) gives 4660 and           *)
(* (0xFF, 0xFF) gives -1.                                               *)
(* ------------------------------------------------------------------ *)
C2_ReadWordLE ==
    LET l == regs[ADDR_LSM6][REG_OUTX_L_G]
        h == regs[ADDR_LSM6][REG_OUTX_L_G + 1]
    IN  /\ IsPrefix(ShapeSeq(iterLog),
                    ReadTxn(ADDR_LSM6, REG_OUTX_L_G) \o ReadTxn(ADDR_LSM6, REG_OUTX_L_G + 1))
        /\ (half = 1 => lo = l)
        /\ (Len(frame) >= 1 =>
              /\ frame[1] = SignedLE(l, h)
              /\ frame[1] \in -32768..32767
              /\ (l = 52 /\ h = 18 => frame[1] = 4660)
              /\ (l = 255 /\ h = 255 => frame[1] = -1))

C2_Witness ==
    /\ frame = << -1 >>
    /\ regs[ADDR_LSM6][REG_OUTX_L_G] = 255
    /\ regs[ADDR_LSM6][REG_OUTX_L_G + 1] = 255
    /\ Len(iterLog) = 6

(* ------------------------------------------------------------------ *)
(* C3: a write that transfers fewer bytes than requested is the last    *)
(* system call the process ever issues on the bus, and the process has  *)
(* then exited with status 1.                                           *)
(* ------------------------------------------------------------------ *)
C3_ShortWriteFatal ==
    LET all == cfgLog \o iterLog
    IN  \A i \in 1..Len(all) :
            all[i].op = "write" /\ all[i].ret # Len(all[i].data) =>
                /\ i = Len(all)
                /\ pc = "exited"
                /\ status = 1

C3_Witness ==
    /\ pc = "exited"
    /\ fault = "short_write"
    /\ Len(iterLog) > 0
    /\ iterLog[Len(iterLog)].op = "write"
    /\ iterLog[Len(iterLog)].ret = 0

(* ------------------------------------------------------------------ *)
(* C4: no system call is issued on the bus unless open succeeded; when  *)
(* open fails the process has exited with status 1 and both logs are    *)
(* empty.                                                               *)
(* ------------------------------------------------------------------ *)
C4_OpenFirst ==
    /\ (cfgLog # <<>> \/ iterLog # <<>> => fd >= 0)
    /\ (fault = "open" => pc = "exited" /\ status = 1 /\ cfgLog = <<>> /\ iterLog = <<>>)

C4_Witness == fault = "open" /\ pc = "exited" /\ fd = -1

C5_Expected ==
    Flatten([i \in 1..18 |->
                IF i <= 12 THEN ReadTxn(107, 34 + (i - 1)) ELSE ReadTxn(30, 40 + (i - 13))])

(* ------------------------------------------------------------------ *)
(* C5: the system calls of an iteration that prints a line are exactly  *)
(* 18 register reads, each a device-select, a one-byte write of the     *)
(* register and a one-byte read: registers 0x22..0x2D of 0x6B in        *)
(* ascending order, then 0x28..0x2D of 0x1E; inside an iteration the    *)
(* log is the prefix of that sequence the position stands for, so no    *)
(* register write is among them.                                        *)
(* ------------------------------------------------------------------ *)
C5_ReadsPerLine ==
    /\ (pc = "sample" =>
          ShapeSeq(iterLog) = SubSeq(C5_Expected, 1, 3 * (2 * (idx - 1) + half) + OpCount))
    /\ (pc \in {"print", "usleep"} =>
          /\ ShapeSeq(iterLog) = C5_Expected
          /\ Len(SelectSeq(iterLog, IsRead)) = 18
          /\ Len(SelectSeq(iterLog, IsRegWrite)) = 0)
    /\ (out.kind = "line" => pc = "usleep")
    /\ (~Streaming /\ pc # "exited" => iterLog = <<>>)

C5_Witness == out.kind = "line" /\ Len(iterLog) = 54 /\ gen[ADDR_LSM6] > 0

RECURSIVE ParseHex(_)
ParseHex(ds) ==
    IF ds = <<>> THEN 0
    ELSE LET d == ds[Len(ds)]
             v == CHOOSE k \in 0..15 : HexDigits[k + 1] = d
         IN  16 * ParseHex(SubSeq(ds, 1, Len(ds) - 1)) + v

C6_Writes == << <<16, 32>>, <<17, 36>>, <<32, 108>>, <<33, 0>>, <<34, 0>> >>

(* ------------------------------------------------------------------ *)
(* C6: whatever bytes the two WHO_AM_I registers hold, the program      *)
(* prints them in hexadecimal and goes on: it exits only after a bus    *)
(* failure, and the register writes it issues are the same five.        *)
(* ------------------------------------------------------------------ *)
C6_IdentifyNotValidated ==
    LET w1 == regs[ADDR_LSM6][15]
        w2 == regs[ADDR_LIS3][15]
        wr == SelectSeq(cfgLog, IsRegWrite)
    IN  /\ (pc = "exited" => fault # "none")
        /\ (out.kind = "who" =>
              /\ Len(out.vals) = 2
              /\ ParseHex(out.vals[1]) = w1
              /\ ParseHex(out.vals[2]) = w2
              /\ (w1 = 105 => out.vals[1] = <<"6", "9">>)
              /\ (w2 = 61 => out.vals[2] = <<"3", "d">>))
        /\ (fault = "none" =>
              /\ IsPrefix([i \in 1..Len(wr) |-> wr[i].data], C6_Writes)
              /\ (Streaming => Len(wr) = 5))

C6_Witness ==
    /\ Streaming
    /\ fault = "none"
    /\ regs[ADDR_LSM6][15] # 105
    /\ regs[ADDR_LIS3][15] # 61
    /\ Len(SelectSeq(cfgLog, IsRegWrite)) = 5

(* ------------------------------------------------------------------ *)
(* C7: once the bus has failed in any of the four ways the process has  *)
(* exited with status 1 and no data line is on the console for that     *)
(* iteration; a printed line holds nine words, and the 54 system calls  *)
(* of its iteration all succeeded and delivered the bytes the words     *)
(* are made of.                                                         *)
(* ------------------------------------------------------------------ *)
C7_NoPartialFailure ==
    LET rd == SelectSeq(iterLog, IsRead)
    IN  /\ (fault # "none" => pc = "exited" /\ status = 1 /\ out.kind # "line")
        /\ (out.kind = "line" =>
              /\ Len(out.vals) = 9
              /\ Len(rd) = 18
              /\ \A i \in 1..Len(iterLog) : ~Failed(iterLog[i])
              /\ \A k \in 1..9 :
                    out.vals[k] = SignedLE(rd[2 * k - 1].data[1], rd[2 * k].data[1]))

C7_Witness ==
    /\ pc = "exited"
    /\ fault = "short_read"
    /\ Len(iterLog) > 27
    /\ out.kind = "none"
    /\ status = 1

(* ------------------------------------------------------------------ *)
(* C8: the process never ends with status 0 and never gives up the      *)
(* handle it opened; in a run in which the bus never fails it ends up   *)
(* in the loop for good and prints a data line again and again.         *)
(* ------------------------------------------------------------------ *)
C8_LoopForever ==
    /\ [](status \in {-1, 1})
    /\ [](pc \notin {"open", "exited"} => fd = 3)
    /\ [](status = 1 => fault # "none")
    /\ ([](fault = "none") => <>[]Streaming /\ []<>(out.kind = "line"))

C8_Witness == out.kind = "line" /\ fault = "none" /\ status = -1 /\ fd = 3

C9_WordReg(k) == IF k <= 6 THEN 34 + 2 * (k - 1) ELSE 40 + 2 * (k - 7)
C9_WordDev(k) == IF k <= 6 THEN 107 ELSE 30

(* ------------------------------------------------------------------ *)
(* C9: each word read16_le returns is the low byte of the sample the    *)
(* sensor held when the low register was read joined with the high byte *)
(* of the sample it held when the high register was read; when the      *)
(* sensor replaced the pair in between, the word is torn.               *)
(* ------------------------------------------------------------------ *)
C9_NoAtomicity ==
    LET rd == SelectSeq(iterLog, IsRead)
    IN  \A k \in 1..Len(frame) :
            /\ Len(rd) >= 2 * k
            /\ frame[k] =
                  SignedLE(SampleWord(C9_WordDev(k), C9_WordReg(k), rd[2 * k - 1].gen) % 256,
                           SampleWord(C9_WordDev(k), C9_WordReg(k), rd[2 * k].gen) \div 256)

C9_Witness ==
    LET rd == SelectSeq(iterLog, IsRead)
    IN  \E k \in 1..Len(frame) :
            /\ Len(rd) >= 2 * k
            /\ rd[2 * k].gen = rd[2 * k - 1].gen + 1
            /\ frame[k] # ToInt16(SampleWord(C9_WordDev(k), C9_WordReg(k), rd[2 * k - 1].gen))
            /\ frame[k] # ToInt16(SampleWord(C9_WordDev(k), C9_WordReg(k), rd[2 * k].gen))

C10_NoConfigOp(log) ==
    \A i \in 1..Len(log) : ~IsRegWrite(log[i]) /\ log[i].data # <<15>>

(* ------------------------------------------------------------------ *)
(* C10: the loop is entered once and never left except by exiting:      *)
(* from a state of the loop the next state is a state of the loop or    *)
(* the exit, the log of the configuration no longer grows, and the      *)
(* iteration's log holds no register write and no read of 0x0F; and     *)
(* whenever a sample read has been issued the configuration log is the  *)
(* complete, successful one.                                            *)
(* ------------------------------------------------------------------ *)
C10_OneWay ==
    /\ [](iterLog # <<>> \/ Streaming =>
            /\ ShapeSeq(cfgLog) = C1_Expected
            /\ C10_NoConfigOp(iterLog))
    /\ [][Streaming => (Streaming' \/ pc' = "exited") /\ cfgLog' = cfgLog]_vars

C10_Witness == pc = "sample" /\ idx = 1 /\ op = "select" /\ out = NoOut /\ iterLog = <<>>

====
